---- MODULE Spec2Model ----
(***************************************************************************)
(* Model of the unit_test_utils crate (src/src/lib.rs): tolerance-based    *)
(* comparison of floating-point numbers and arrays, NaN detection and      *)
(* bound assertions.                                                       *)
(*                                                                         *)
(* The generic type T: Float is modelled by a small binary floating-point  *)
(* format with IEEE-754 semantics: signed zeros, one subnormal, normal     *)
(* numbers with a two-bit significand, signed infinities, NaN, unordered   *)
(* comparisons and round-to-nearest-even arithmetic.  A finite magnitude   *)
(* is an integer count of the smallest subnormal; 1.0 is four of them.     *)
(***************************************************************************)
EXTENDS Integers, Sequences, FiniteSets, TLC

\* Number of binades of normal numbers in the modelled format.
MaxExp == 3
\* Longest slice passed to the array functions.
MaxLen == 2

VARIABLES op, a, b, rel_tol, abs_tol, xs, ys, lim, msg, result

vars == <<op, a, b, rel_tol, abs_tol, xs, ys, lim, msg, result>>

----------------------------------------------------------------------------
\* The floating-point type T

RECURSIVE Pow2(_)
Pow2(n) == IF n = 0 THEN 1 ELSE 2 * Pow2(n - 1)

\* Magnitude of 1.0 in units of the smallest subnormal.
Scale == Pow2(2)

\* First magnitude past the largest finite one: rounding to it overflows.
Overflow == 2 * Pow2(MaxExp)

\* Finite magnitudes: zero, the subnormal, then significands 1.0 and 1.1
\* in each binade.
Mags == {0, 1} \cup {m * Pow2(e) : m \in 2..3, e \in 0..(MaxExp - 1)}

NaN == [cls |-> "nan", sign |-> 0, mag |-> 0]
Inf(s) == [cls |-> "inf", sign |-> s, mag |-> 0]
Fin(s, m) == [cls |-> "fin", sign |-> s, mag |-> m]

Floats == {NaN} \cup {Inf(s) : s \in 0..1} \cup {Fin(s, m) : s \in 0..1, m \in Mags}

is_nan(x) == x.cls = "nan"
is_infinite(x) == x.cls = "inf"

\* T::zero()
Zero == Fin(0, 0)

\* T::min_positive_value(): the smallest positive normal number.
min_positive_value == Fin(0, 2)

\* x.abs(): clears the sign; NaN stays NaN.
Abs(x) == IF is_nan(x) THEN NaN ELSE [x EXCEPT !.sign = 0]

Neg(x) == IF is_nan(x) THEN NaN ELSE [x EXCEPT !.sign = 1 - x.sign]

\* Position of a non-NaN value on the extended real line.
Val(x) ==
    LET m == IF is_infinite(x) THEN Overflow ELSE x.mag
    IN  IF x.sign = 1 THEN 0 - m ELSE m

\* IEEE comparisons: every comparison with NaN is false; -0 equals +0.
FEq(x, y) == ~is_nan(x) /\ ~is_nan(y) /\ Val(x) = Val(y)
FLe(x, y) == ~is_nan(x) /\ ~is_nan(y) /\ Val(x) <= Val(y)
FLt(x, y) == ~is_nan(x) /\ ~is_nan(y) /\ Val(x) < Val(y)
FGe(x, y) == ~is_nan(x) /\ ~is_nan(y) /\ Val(x) >= Val(y)
FGt(x, y) == ~is_nan(x) /\ ~is_nan(y) /\ Val(x) > Val(y)

Dist(c, num, den) == IF c * den >= num THEN c * den - num ELSE num - c * den

IsEvenMag(c) == c = 0 \/ \E e \in 0..(MaxExp + 1) : c = 2 * Pow2(e)

\* Round the non-negative rational num/den to the nearest magnitude,
\* ties to the even significand; Overflow stands for infinity.
RoundMag(num, den) ==
    LET C == Mags \cup {Overflow}
    IN  CHOOSE c \in C : \A d \in C :
            \/ Dist(c, num, den) < Dist(d, num, den)
            \/ Dist(c, num, den) = Dist(d, num, den) /\ (c = d \/ IsEvenMag(c))

FromMag(s, m) == IF m = Overflow THEN Inf(s) ELSE Fin(s, m)

\* x - y
Sub(x, y) ==
    IF is_nan(x) \/ is_nan(y) THEN NaN
    ELSE IF is_infinite(x)
         THEN IF is_infinite(y) /\ y.sign = x.sign THEN NaN ELSE x
    ELSE IF is_infinite(y) THEN Neg(y)
    ELSE LET d == Val(x) - Val(y)
         IN  IF d = 0
             THEN Fin(IF x.sign = 1 /\ y.sign = 0 THEN 1 ELSE 0, 0)
             ELSE IF d < 0 THEN FromMag(1, RoundMag(0 - d, 1))
             ELSE FromMag(0, RoundMag(d, 1))

\* x * y
Mul(x, y) ==
    LET s == IF x.sign = y.sign THEN 0 ELSE 1
    IN  IF is_nan(x) \/ is_nan(y) THEN NaN
        ELSE IF is_infinite(x) \/ is_infinite(y)
             THEN IF (x.cls = "fin" /\ x.mag = 0) \/ (y.cls = "fin" /\ y.mag = 0)
                  THEN NaN
                  ELSE Inf(s)
        ELSE FromMag(s, RoundMag(x.mag * y.mag, Scale))

----------------------------------------------------------------------------
\* Outcomes of a call: a returned boolean, a normal return of (), or a panic
\* with the parts of its message.

NoResult ==
    [kind |-> "none", val |-> FALSE, text |-> "", msg |-> "", idx |-> 0,
     elem |-> NaN, lim |-> NaN]

Return(v) == [NoResult EXCEPT !.kind = "ret", !.val = v]
Unit == [NoResult EXCEPT !.kind = "unit"]
Panic(t) == [NoResult EXCEPT !.kind = "panic", !.text = t]
PanicAt(t, m, i) == [Panic(t) EXCEPT !.msg = m, !.idx = i]
PanicElem(t, m, i, e, l) == [PanicAt(t, m, i) EXCEPT !.elem = e, !.lim = l]

----------------------------------------------------------------------------
\* The functions of lib.rs

float_max_first(p, q) == p

float_max(p, q) == IF FGe(p, q) THEN p ELSE q

float_min_larger(p, q) == IF FGe(p, q) THEN p ELSE q

float_min(p, q) == IF FGe(p, q) THEN q ELSE p

\* nearly_equal with the tolerance assertions accepting zero.
nearly_equal_ge(p, q, rt, at) ==
    IF ~FGe(rt, Zero) THEN Panic("relative tolerance nonpositive")
    ELSE IF ~FGe(at, Zero) THEN Panic("absolute tolerance nonpositive")
    ELSE LET abs_a == Abs(p)
             abs_b == Abs(q)
             abs_diff == Abs(Sub(p, q))
         IN  IF is_nan(p) \/ is_nan(q) THEN Return(FALSE)
             ELSE IF FEq(p, q) \/ FLe(abs_diff, min_positive_value) THEN Return(TRUE)
             ELSE LET max_abs_a_b == float_max(abs_a, abs_b)
                  IN  Return(FLe(abs_diff, float_min(at, Mul(rt, max_abs_a_b))))

\* nearly_equal without the NaN branch and with the bounds tested by
\* negated strict comparisons.
nearly_equal_nonan(p, q, rt, at) ==
    IF ~FGt(rt, Zero) THEN Panic("relative tolerance nonpositive")
    ELSE IF ~FGt(at, Zero) THEN Panic("absolute tolerance nonpositive")
    ELSE LET abs_a == Abs(p)
             abs_b == Abs(q)
             abs_diff == Abs(Sub(p, q))
         IN  IF FEq(p, q) \/ ~FGt(abs_diff, min_positive_value) THEN Return(TRUE)
             ELSE LET max_abs_a_b == float_max(abs_a, abs_b)
                  IN  Return(~FGt(abs_diff, float_min(at, Mul(rt, max_abs_a_b))))

\* nearly_equal without the exact-equality test.
nearly_equal_noeq(p, q, rt, at) ==
    IF ~FGt(rt, Zero) THEN Panic("relative tolerance nonpositive")
    ELSE IF ~FGt(at, Zero) THEN Panic("absolute tolerance nonpositive")
    ELSE LET abs_a == Abs(p)
             abs_b == Abs(q)
             abs_diff == Abs(Sub(p, q))
         IN  IF is_nan(p) \/ is_nan(q) THEN Return(FALSE)
             ELSE IF FLe(abs_diff, min_positive_value) THEN Return(TRUE)
             ELSE LET max_abs_a_b == float_max(abs_a, abs_b)
                  IN  Return(FLe(abs_diff, float_min(at, Mul(rt, max_abs_a_b))))

nearly_equal(p, q, rt, at) ==
    IF ~FGt(rt, Zero) THEN Panic("relative tolerance nonpositive")
    ELSE IF ~FGt(at, Zero) THEN Panic("absolute tolerance nonpositive")
    ELSE LET abs_a == Abs(p)
             abs_b == Abs(q)
             abs_diff == Abs(Sub(p, q))
         IN  IF is_nan(p) \/ is_nan(q) THEN Return(FALSE)
             ELSE IF FEq(p, q) \/ FLe(abs_diff, min_positive_value) THEN Return(TRUE)
             ELSE LET max_abs_a_b == float_max(abs_a, abs_b)
                  IN  Return(FLe(abs_diff, float_min(at, Mul(rt, max_abs_a_b))))

assert_nearly_equal(p, q, rt, at, m) ==
    LET r == nearly_equal(p, q, rt, at)
    IN  IF r.kind = "panic" THEN r
        ELSE IF ~r.val THEN PanicAt(m, m, 0)
        ELSE Unit

\* Number of pairs a.iter().zip(b.iter()) yields.
ZipLen(s, t) == IF Len(s) <= Len(t) THEN Len(s) ELSE Len(t)

\* The for loop of nearly_equal_array from the i-th pair on.
RECURSIVE nearly_equal_array_loop(_, _, _, _, _)
nearly_equal_array_loop(s, t, rt, at, i) ==
    IF i > ZipLen(s, t) THEN Return(TRUE)
    ELSE LET r == nearly_equal(s[i], t[i], rt, at)
         IN  IF r.kind = "panic" THEN r
             ELSE IF ~r.val THEN Return(FALSE)
             ELSE nearly_equal_array_loop(s, t, rt, at, i + 1)

\* nearly_equal_array without the length assertion.
nearly_equal_array_nolen(s, t, rt, at) ==
    nearly_equal_array_loop(s, t, rt, at, 1)

nearly_equal_array(s, t, rt, at) ==
    IF Len(s) # Len(t) THEN Panic("assertion failed: a.len() == b.len()")
    ELSE nearly_equal_array_loop(s, t, rt, at, 1)

\* The for_each of assert_nearly_equal_array from the i-th pair on; the
\* reported index counts from zero.
RECURSIVE assert_nearly_equal_array_loop(_, _, _, _, _, _)
assert_nearly_equal_array_loop(s, t, rt, at, m, i) ==
    IF i > ZipLen(s, t) THEN Unit
    ELSE LET r == nearly_equal(s[i], t[i], rt, at)
         IN  IF r.kind = "panic" THEN r
             ELSE IF ~r.val THEN PanicAt("arrays not equal at entry", m, i - 1)
             ELSE assert_nearly_equal_array_loop(s, t, rt, at, m, i + 1)

\* The same scan run from the last pair down to the first.
RECURSIVE assert_nearly_equal_array_rev(_, _, _, _, _, _)
assert_nearly_equal_array_rev(s, t, rt, at, m, i) ==
    IF i < 1 THEN Unit
    ELSE LET r == nearly_equal(s[i], t[i], rt, at)
         IN  IF r.kind = "panic" THEN r
             ELSE IF ~r.val THEN PanicAt("arrays not equal at entry", m, i - 1)
             ELSE assert_nearly_equal_array_rev(s, t, rt, at, m, i - 1)

\* assert_nearly_equal_array reporting the last failing pair.
assert_nearly_equal_array_last(s, t, rt, at, m) ==
    IF Len(s) # Len(t) THEN Panic("assertion failed: a.len() == b.len()")
    ELSE assert_nearly_equal_array_rev(s, t, rt, at, m, ZipLen(s, t))

assert_nearly_equal_array(s, t, rt, at, m) ==
    IF Len(s) # Len(t) THEN Panic("assertion failed: a.len() == b.len()")
    ELSE assert_nearly_equal_array_loop(s, t, rt, at, m, 1)

RECURSIVE is_any_nan_loop(_, _)
is_any_nan_loop(s, i) ==
    IF i > Len(s) THEN Return(FALSE)
    ELSE IF is_nan(s[i]) THEN Return(TRUE)
    ELSE is_any_nan_loop(s, i + 1)

\* is_any_nan looking at the first element only.
is_any_nan_first(s) == Return(Len(s) > 0 /\ is_nan(s[1]))

is_any_nan(s) == is_any_nan_loop(s, 1)

RECURSIVE assert_none_is_nan_loop(_, _, _)
assert_none_is_nan_loop(s, m, i) ==
    IF i > Len(s) THEN Unit
    ELSE IF is_nan(s[i]) THEN PanicAt("nan at poisition", m, i - 1)
    ELSE assert_none_is_nan_loop(s, m, i + 1)

assert_none_is_nan(s, m) == assert_none_is_nan_loop(s, m, 1)

RECURSIVE assert_all_ge_loop(_, _, _, _)
assert_all_ge_loop(s, l, m, i) ==
    IF i > Len(s) THEN Unit
    ELSE IF FLt(s[i], l) THEN PanicElem("is lower than", m, i - 1, s[i], l)
    ELSE assert_all_ge_loop(s, l, m, i + 1)

assert_all_ge(s, l, m) == assert_all_ge_loop(s, l, m, 1)

RECURSIVE assert_all_le_loop(_, _, _, _)
assert_all_le_loop(s, l, m, i) ==
    IF i > Len(s) THEN Unit
    ELSE IF FGt(s[i], l) THEN PanicElem("is greater than", m, i - 1, s[i], l)
    ELSE assert_all_le_loop(s, l, m, i + 1)

assert_all_le(s, l, m) == assert_all_le_loop(s, l, m, 1)

----------------------------------------------------------------------------
\* Inputs

SeqsUpTo(S, n) == UNION {[1..k -> S] : k \in 0..n}

Msgs == {"x", "y"}

\* Elements and tolerances of the compared arrays.
ArrVals == {NaN, Fin(0, 0), Fin(0, 3), Fin(0, 6)}
ArrTols == {Fin(0, 0), Fin(0, 2), Fin(0, 6)}

\* Elements and limits of the scanned arrays.
SeqVals == {NaN, Inf(0), Fin(1, 3), Fin(1, 0), Fin(0, 0), Fin(0, 3)}
LimVals == {NaN, Fin(1, 3), Fin(0, 0), Fin(0, 3)}

InitScalar ==
    /\ op = "none"
    /\ a \in Floats
    /\ b \in Floats
    /\ rel_tol \in Floats
    /\ abs_tol \in Floats
    /\ xs = << >>
    /\ ys = << >>
    /\ lim = Zero
    /\ msg = "x"
    /\ result = NoResult

InitArray ==
    /\ op = "none"
    /\ a = Zero
    /\ b = Zero
    /\ rel_tol \in ArrTols
    /\ abs_tol \in ArrTols
    /\ xs \in SeqsUpTo(ArrVals, MaxLen)
    /\ ys \in SeqsUpTo(ArrVals, MaxLen)
    /\ lim = Zero
    /\ msg \in Msgs
    /\ result = NoResult

InitScan ==
    /\ op = "none"
    /\ a = Zero
    /\ b = Zero
    /\ rel_tol = Zero
    /\ abs_tol = Zero
    /\ xs \in SeqsUpTo(SeqVals, MaxLen + 1)
    /\ ys = << >>
    /\ lim \in LimVals
    /\ msg \in Msgs
    /\ result = NoResult

Call(name, r) ==
    /\ op = "none"
    /\ op' = name
    /\ result' = r
    /\ UNCHANGED <<a, b, rel_tol, abs_tol, xs, ys, lim, msg>>

Do_nearly_equal == Call("nearly_equal", nearly_equal(a, b, rel_tol, abs_tol))

Do_assert_nearly_equal ==
    Call("assert_nearly_equal", assert_nearly_equal(a, b, rel_tol, abs_tol, msg))

Do_nearly_equal_array ==
    Call("nearly_equal_array", nearly_equal_array(xs, ys, rel_tol, abs_tol))

Do_assert_nearly_equal_array ==
    Call("assert_nearly_equal_array",
         assert_nearly_equal_array(xs, ys, rel_tol, abs_tol, msg))

Do_is_any_nan == Call("is_any_nan", is_any_nan(xs))

Do_assert_none_is_nan == Call("assert_none_is_nan", assert_none_is_nan(xs, msg))

Do_assert_all_ge == Call("assert_all_ge", assert_all_ge(xs, lim, msg))

Do_assert_all_le == Call("assert_all_le", assert_all_le(xs, lim, msg))

NextScalar == Do_nearly_equal \/ Do_assert_nearly_equal

NextArray == Do_nearly_equal_array \/ Do_assert_nearly_equal_array

NextScan ==
    \/ Do_is_any_nan
    \/ Do_assert_none_is_nan
    \/ Do_assert_all_ge
    \/ Do_assert_all_le

\* Calls on two numbers.
SpecScalar == InitScalar /\ [][NextScalar]_vars

\* Calls on two arrays.
SpecArray == InitArray /\ [][NextArray]_vars

\* Calls on one array.
SpecScan == InitScan /\ [][NextScan]_vars

----------------------------------------------------------------------------
\* Properties

StrictlyPositive(x) == FGt(x, Zero)
NonPositive(x) == FLe(x, Zero)
PositiveTolerances == StrictlyPositive(rel_tol) /\ StrictlyPositive(abs_tol)

\* |a - b| of the current call.
AbsDiff == Abs(Sub(a, b))

\* The larger of |a| and |b| (defined when neither is NaN).
LargerAbs == CHOOSE m \in {Abs(a), Abs(b)} : FGe(m, Abs(a)) /\ FGe(m, Abs(b))

\* The difference is within the absolute and within the relative bound.
WithinAbs == FLe(AbsDiff, abs_tol)
WithinRel == FLe(AbsDiff, Mul(rel_tol, LargerAbs))

\* The smallest positive value of the format: the subnormal.
SmallestPositive == Fin(0, 1)

\* nearly_equal was called on distinct non-NaN numbers, with positive
\* tolerances, whose difference exceeds t.
GeneralCase(t) ==
    /\ op = "nearly_equal"
    /\ ~is_nan(a) /\ ~is_nan(b)
    /\ ~FEq(a, b)
    /\ FGt(AbsDiff, t)
    /\ PositiveTolerances

C2_NonPositiveTolerancePanics ==
    (op = "nearly_equal" /\ (NonPositive(rel_tol) \/ NonPositive(abs_tol)))
        => result.kind = "panic"

\* Equal numbers, a good relative and a zero absolute tolerance: a panic.
C2_Witness ==
    /\ op = "nearly_equal"
    /\ FEq(a, b)
    /\ StrictlyPositive(rel_tol) /\ FEq(abs_tol, Zero)
    /\ result = Panic("absolute tolerance nonpositive")

\* C3: with positive tolerances, nearly_equal returns false when a or b is
\* NaN, also when both are.
C3_NaNIsNeverNearlyEqual ==
    (op = "nearly_equal" /\ PositiveTolerances /\ (is_nan(a) \/ is_nan(b)))
        => result = Return(FALSE)

C3_Witness ==
    /\ op = "nearly_equal"
    /\ PositiveTolerances
    /\ is_nan(a) /\ is_nan(b)
    /\ result = Return(FALSE)

\* C4: nearly_equal(a, b, ..) and nearly_equal(b, a, ..) have the same
\* outcome: the same boolean or both a panic.
C4_Symmetric ==
    op = "nearly_equal" => result = nearly_equal(b, a, rel_tol, abs_tol)

\* Numbers of different magnitude accepted by the relative bound.
C4_Witness ==
    /\ GeneralCase(min_positive_value)
    /\ ~FEq(Abs(a), Abs(b))
    /\ result = Return(TRUE)

\* nearly_equal was called with positive tolerances on non-NaN numbers of
\* which one at least is infinite.
InfiniteCase ==
    /\ op = "nearly_equal"
    /\ PositiveTolerances
    /\ ~is_nan(a) /\ ~is_nan(b)
    /\ is_infinite(a) \/ is_infinite(b)

Mismatches ==
    {i \in 1..Len(xs) : nearly_equal(xs[i], ys[i], rel_tol, abs_tol) # Return(TRUE)}

\* C6: with positive tolerances nearly_equal_array returns, for arrays of
\* equal length, whether every pair is nearly equal, and panics for arrays
\* of different lengths.
C6_ArrayIsPairwise ==
    (op = "nearly_equal_array" /\ PositiveTolerances)
        => IF Len(xs) = Len(ys)
           THEN result = Return(Mismatches = {})
           ELSE result.kind = "panic"

\* The first pair is nearly equal, a later one is not: false.
C6_Witness ==
    /\ op = "nearly_equal_array"
    /\ PositiveTolerances
    /\ Len(xs) = Len(ys)
    /\ Mismatches # {} /\ 1 \notin Mismatches
    /\ result = Return(FALSE)

\* C7: nearly_equal_array and assert_nearly_equal_array called on arrays of
\* equal length with rel_tol <= 0 or abs_tol <= 0 panic.
C7_ArrayNonPositiveTolerancePanics ==
    ( /\ op \in {"nearly_equal_array", "assert_nearly_equal_array"}
      /\ Len(xs) = Len(ys)
      /\ (NonPositive(rel_tol) \/ NonPositive(abs_tol)) )
        => result.kind = "panic"

\* C8: on arrays of equal length and with positive tolerances,
\* assert_nearly_equal_array returns normally when every pair is nearly
\* equal and otherwise panics with msg and the smallest mismatching index.
C8_FirstMismatchReported ==
    (op = "assert_nearly_equal_array" /\ Len(xs) = Len(ys) /\ PositiveTolerances)
        => IF Mismatches = {}
           THEN result = Unit
           ELSE /\ result.kind = "panic"
                /\ result.msg = msg
                /\ result.idx + 1 \in Mismatches
                /\ \A j \in Mismatches : result.idx + 1 <= j

\* Two mismatches: the first one is reported.
C8_Witness ==
    /\ op = "assert_nearly_equal_array"
    /\ Len(xs) = Len(ys)
    /\ PositiveTolerances
    /\ Cardinality(Mismatches) >= 2
    /\ result = PanicAt("arrays not equal at entry", msg, 0)

\* C9: assert_all_ge returns normally exactly when every element is >= lim,
\* assert_all_le exactly when every element is <= lim.
C9_BoundsAsStated ==
    /\ op = "assert_all_ge"
         => (result.kind = "unit" <=> \A i \in 1..Len(xs) : FGe(xs[i], lim))
    /\ op = "assert_all_le"
         => (result.kind = "unit" <=> \A i \in 1..Len(xs) : FLe(xs[i], lim))

\* Indices of the NaN elements.
NaNs == {i \in 1..Len(xs) : is_nan(xs[i])}

\* C10: is_any_nan returns whether some element is NaN and does not panic;
\* assert_none_is_nan panics exactly when is_any_nan is true, with msg and
\* the index of the first NaN.
C10_NaNScan ==
    /\ op = "is_any_nan" => result = Return(NaNs # {})
    /\ op = "assert_none_is_nan"
         => IF is_any_nan(xs) = Return(TRUE)
            THEN /\ result.kind = "panic"
                 /\ result.msg = msg
                 /\ result.idx + 1 \in NaNs
                 /\ \A j \in NaNs : result.idx + 1 <= j
            ELSE result = Unit

\* Two NaNs after a number: the first NaN is reported.
C10_Witness ==
    /\ op = "assert_none_is_nan"
    /\ Cardinality(NaNs) >= 2 /\ 1 \notin NaNs
    /\ result = PanicAt("nan at poisition", msg, 1)

====
